---- MODULE Spec2Model ----
(***************************************************************************)
(* A state-machine model of the delimited-table parsing engine             *)
(* (parser/src/tasks/table/parse_table.rs): format selection, the header   *)
(* inference state machine, cell resolution with the deferred header       *)
(* reparse, and table assembly.                                            *)
(***************************************************************************)
EXTENDS Integers, Sequences, FiniteSets, TLC

(***************************************************************************)
(* Bounds of the model.                                                    *)
(***************************************************************************)
\* source cells in one table body
MaxCells == 3
\* column specs resolved from `cols`
MaxCols == 2
\* characters of a `separator` attribute value
MaxSepLen == 2
\* diagnostics of one failed nested parse
MaxDiags == 2
\* inline nodes of one cell
MaxNodes == 4

(***************************************************************************)
(* Value domains.                                                          *)
(***************************************************************************)
\* Option<T> is a sequence of length 0 (None) or 1 (Some)
None == <<>>

Some(x) == <<x>>

IsSome(o) == Len(o) > 0

SeqsUpTo(S, n) == UNION {[1..k -> S] : k \in 0..n}

CellContentStyle ==
  {"Default", "Emphasis", "Header", "Monospace", "Strong", "Literal", "AsciiDoc"}

\* the explicit style marker of a cell spec: "None" is CellSpec.style == None
SpecStyles == {"None", "Strong", "Literal", "AsciiDoc"}

ColStyles == {"Default", "AsciiDoc"}

\* ColWidth::Proportional(n) and ColWidth::Auto
Proportional(n) == [kind |-> "Proportional", n |-> n]

Auto == [kind |-> "Auto", n |-> 0]

\* ColSpec: declared width and style
ColSpecs == [width : {Proportional(1)}, style : ColStyles]

\* the result of parse_col_specs, empty when `cols` is absent: n columns
\* of one style
ColSpecInputs ==
  {[i \in 1..n |-> spec] : n \in 0..MaxCols, spec \in ColSpecs}

Options == {"header", "noheader", "footer", "autowidth"}

FormatAttrs == {"none", "psv", "csv", "tsv", "dsv"}

DelimChars == {":", ",", "|", "!", ";"}

SepChars == {"|", ";"}

\* Option<&str> of the `separator` attribute, a string being a sequence of chars
SeparatorInputs == {None} \cup {Some(s) : s \in SeqsUpTo(SepChars, MaxSepLen)}

WsKinds == {"Newline", "Whitespace"}

\* the whitespace-ish tokens that end a cell's tokens, in source order:
\* none, a blank line, a blank line after trailing spaces, a blank line
\* before the indentation of the next cell
WsRuns ==
  {<<>>,
   <<"Newline", "Newline">>,
   <<"Whitespace", "Newline", "Newline">>,
   <<"Newline", "Newline", "Whitespace">>}

\* the nested parse of a cell that has none, and of an AsciiDoc cell parsed
\* without warnings
NestedOk == [ok |-> TRUE, diags |-> 0]

\* outcome of the nested parse of an AsciiDoc cell: Ok(ParseResult) with
\* `diags` warnings (none or one), or Err with `diags` diagnostics, at least
\* one
NestedOutcomes ==
  {[ok |-> TRUE, diags |-> n] : n \in 0..1}
    \cup {[ok |-> FALSE, diags |-> n] : n \in 1..MaxDiags}

\* the steps of Substitutions, and the sets the parser starts with (normal)
\* and uses for verbatim content
SubKinds ==
  {"SpecialChars", "InlineFormatting", "AttrRefs", "CharReplacement",
   "Macros", "PostReplacement"}

NormalSubs == SubKinds

VerbatimSubs == {"SpecialChars"}

HeaderRowStates ==
  {"Unknown", "ExplicitlySet", "ExplicitlyUnset", "FoundNone", "FoundImplicit"}

VARIABLES
  pc,        \* position in parse_table
  meta,      \* ChunkMeta: attribute options, format, separator, col specs
  strict,    \* Parser.strict
  delim_ch,  \* first character of the opening delimiter line
  lines,     \* the lines after the delimiter: num_lines, rest, closed
  ctx,       \* TableContext
  table,     \* ctx.table
  tokens,    \* source cells left in the table's token buffer
  cells,     \* cells of the row the row parser is assembling
  consumed,  \* source cells consumed so far
  errors,    \* Parser.errors, the shared diagnostics sink
  yielded,   \* history: the rows the row parser has yielded, in order
  last_ws,   \* history: finish_cell's `ws` of the latest cell (Unknown state)
  blanks,    \* history: where the cells finished in the Unknown state had "\n\n"
  call,      \* history: the latest call of finish_cell and what it returned
  drained,   \* history: the lines table_content drained into its token buffer
  reparses,  \* history: the calls of reparse_header_cells
  grammars,  \* history: the row parsers called, by pass and grammar
  nodes,     \* split_paragraphs: the inline nodes it is called with
  paras,     \* split_paragraphs: the paragraphs it returned
  widths,    \* enter_table: the distributed column widths it iterates over
  colgroup,  \* enter_table: the <col> elements it wrote
  ctx_subs,  \* Parser.ctx.subs, the active substitutions
  inlined    \* parse_non_asciidoc_cell: its latest call and what it returned

vars ==
  <<pc, meta, strict, delim_ch, lines, ctx, table, tokens, cells, consumed,
    errors, yielded, last_ws, blanks, call, drained, reparses, grammars,
    nodes, paras, widths, colgroup, ctx_subs, inlined>>

\* the variables of the functions checked on their own
aux == <<nodes, paras, widths, colgroup, ctx_subs, inlined>>

(***************************************************************************)
(* Format selection and the separator attribute.                           *)
(***************************************************************************)
DataFormat(kind, sep) == [kind |-> kind, sep |-> sep]

\* parse_table: the match on (format attribute, delimiter character)
SelectFormat(format_attr, ch) ==
  CASE format_attr = "psv" -> DataFormat("Csv", "|")
    [] format_attr = "csv" -> DataFormat("Csv", ",")
    [] format_attr = "tsv" -> DataFormat("Csv", "tab")
    [] format_attr = "dsv" -> DataFormat("Delimited", ":")
    [] OTHER ->
         CASE ch = ":" -> DataFormat("Delimited", ":")
           [] ch = "," -> DataFormat("Delimited", ",")
           [] ch = "|" -> DataFormat("Prefix", "|")
           [] ch = "!" -> DataFormat("Prefix", "!")
           [] OTHER -> DataFormat("Prefix", ch)

\* DataFormat::replace_separator: the separator changes, the variant stays
ReplaceSeparator(format, ch) == [format EXCEPT !.sep = ch]

\* DataFormat::separator
Separator(format) == format.sep

SeparatorMsg == "Cell separator must be exactly one character"

\* the pattern "separator", the name of the attribute, as a sequence of chars
SeparatorName == <<"s", "e", "p", "a", "r", "a", "t", "o", "r">>

\* the diagnostic of err_at_pattern(msg, meta.start, pattern): the message,
\* underlined at the pattern found in the attribute line
SeparatorDiagnostic(pattern) ==
  [kind |-> "separator", src |-> 0, msg |-> SeparatorMsg, pattern |-> pattern]

\* mutant of SeparatorAttr: the separator of the format is not replaced
SeparatorAttrKeepsFormat(sep, format) ==
  IF ~IsSome(sep)
    THEN [format |-> format, malformed |-> FALSE, pattern |-> <<>>]
    ELSE [format |-> format, malformed |-> Len(sep[1]) # 1,
          pattern |-> IF sep[1] = <<>> THEN SeparatorName ELSE sep[1]]

\* mutant of SeparatorAttr: the characters after the first are not looked at
SeparatorAttrFirstCharOnly(sep, format) ==
  IF ~IsSome(sep)
    THEN [format |-> format, malformed |-> FALSE, pattern |-> <<>>]
    ELSE LET chars == sep[1] IN
         IF Len(chars) = 0
           THEN [format |-> format, malformed |-> TRUE, pattern |-> SeparatorName]
           ELSE [format |-> ReplaceSeparator(format, chars[1]),
                 malformed |-> FALSE, pattern |-> chars]

\* parse_table: the `separator` attribute. malformed: err_at_pattern was
\* called, with the pattern `pattern`
SeparatorAttr(sep, format) ==
  IF ~IsSome(sep)
    THEN [format |-> format, malformed |-> FALSE, pattern |-> <<>>]
    ELSE LET chars == sep[1] IN
         IF Len(chars) = 0
           THEN [format |-> format, malformed |-> TRUE, pattern |-> SeparatorName]
           ELSE [format |-> ReplaceSeparator(format, chars[1]),
                 malformed |-> Len(chars) > 1, pattern |-> chars]

\* Parser::err_*: the diagnostic is returned as an error in strict mode,
\* and otherwise recorded in the diagnostics sink
ErrAborts(is_strict) == is_strict

(***************************************************************************)
(* The header-row state.                                                   *)
(***************************************************************************)
\* HeaderRow::known_to_exist
KnownToExist(h) == h \in {"ExplicitlySet", "FoundImplicit"}

\* HeaderRow::is_unknown
IsUnknown(h) == h = "Unknown"

\* mutant of InitialHeaderRow: the `noheader` option is not looked at
InitialHeaderRowNoUnset(opts, num_lines) ==
  IF "header" \in opts THEN "ExplicitlySet"
  ELSE IF num_lines # 1 THEN "FoundNone"
  ELSE "Unknown"

\* mutant of InitialHeaderRow: the number of lines is not looked at
InitialHeaderRowAnyLines(opts, num_lines) ==
  IF "header" \in opts THEN "ExplicitlySet"
  ELSE IF "noheader" \in opts THEN "ExplicitlyUnset"
  ELSE "Unknown"

\* mutant of InitialHeaderRow: the `noheader` option is tested first
InitialHeaderRowUnsetFirst(opts, num_lines) ==
  IF "noheader" \in opts THEN "ExplicitlyUnset"
  ELSE IF "header" \in opts THEN "ExplicitlySet"
  ELSE IF num_lines # 1 THEN "FoundNone"
  ELSE "Unknown"

\* parse_table: the header state set from the options and the line count
InitialHeaderRow(opts, num_lines) ==
  IF "header" \in opts THEN "ExplicitlySet"
  ELSE IF "noheader" \in opts THEN "ExplicitlyUnset"
  ELSE IF num_lines # 1 THEN "FoundNone"
  ELSE "Unknown"

\* the Table of a fresh TableContext
NewTable(col_specs) ==
  [col_widths |-> [i \in 1..Len(col_specs) |-> col_specs[i].width],
   header_row |-> None,
   rows |-> <<>>,
   footer_row |-> None]

\* mutant of NewContext: the columns are counted also when `cols` has specs
NewContextAlwaysCounting(format, col_specs, opts) ==
  [format |-> format,
   cell_separator |-> Separator(format),
   num_cols |-> Len(col_specs),
   counting_cols |-> TRUE,
   col_specs |-> col_specs,
   header_row |-> "Unknown",
   header_reparse_cells |-> <<>>,
   autowidths |-> "autowidth" \in opts,
   can_infer_implicit_header |-> FALSE,
   effective_row_idx |-> 0]

\* the TableContext literal of parse_table, header_row still Unknown
NewContext(format, col_specs, opts) ==
  [format |-> format,
   cell_separator |-> Separator(format),
   num_cols |-> Len(col_specs),
   counting_cols |-> col_specs = <<>>,
   col_specs |-> col_specs,
   header_row |-> "Unknown",
   header_reparse_cells |-> <<>>,
   autowidths |-> "autowidth" \in opts,
   can_infer_implicit_header |-> FALSE,
   effective_row_idx |-> 0]

(***************************************************************************)
(* Cell resolution.                                                        *)
(***************************************************************************)
\* TokenKind::is_whitespaceish of Option<&Token>
IsWhitespaceish(kind) == kind \in WsKinds

\* the cell tokens left once the trailing whitespace-ish tokens are popped
RECURSIVE StripTrailing(_)
StripTrailing(toks) ==
  IF toks # <<>> /\ IsWhitespaceish(toks[Len(toks)])
    THEN StripTrailing(SubSeq(toks, 1, Len(toks) - 1))
    ELSE toks

\* finish_cell: `ws`, the kinds of the popped tokens in the order popped
PoppedKinds(toks) ==
  LET n == Len(toks) - Len(StripTrailing(toks))
  IN [i \in 1..n |-> toks[Len(toks) - i + 1]]

\* mutant of ImplicitHeaderSignal: the first two tokens popped are compared
ImplicitHeaderSignalFirstPopped(ws) ==
  /\ Len(ws) > 1
  /\ ws[1] = "Newline"
  /\ ws[2] = "Newline"

\* finish_cell: ws.len() > 1 && ws[ws.len() - 2..] == [Newline, Newline]
ImplicitHeaderSignal(ws) ==
  /\ Len(ws) > 1
  /\ ws[Len(ws) - 1] = "Newline"
  /\ ws[Len(ws)] = "Newline"

\* mutant of CanInferImplicitHeader: a cell without the signal clears the flag
CanInferImplicitHeaderLatest(h, flag, ws) ==
  IF IsUnknown(h) THEN ImplicitHeaderSignal(ws) ELSE FALSE

\* finish_cell: can_infer_implicit_header once the trailing tokens are popped
CanInferImplicitHeader(h, flag, ws) ==
  IF IsUnknown(h) THEN flag \/ ImplicitHeaderSignal(ws) ELSE FALSE

\* mutant of ResolveStyle: the column's style overrides the cell's marker
ResolveStyleColumnFirst(cell_spec, col_specs, col_index) ==
  IF col_index < Len(col_specs) THEN col_specs[col_index + 1].style
  ELSE IF cell_spec.style # "None" THEN cell_spec.style
  ELSE "Default"

\* finish_cell: the style of the cell before the header forcing
ResolveStyle(cell_spec, col_specs, col_index) ==
  IF cell_spec.style # "None" THEN cell_spec.style
  ELSE IF col_index < Len(col_specs) THEN col_specs[col_index + 1].style
  ELSE "Default"

\* mutant of CellStyle: the cells of a known header row keep their style
CellStyleUnforced(cell_spec, c, t, col_index) ==
  ResolveStyle(cell_spec, c.col_specs, col_index)

\* finish_cell: the style the cell is resolved with
CellStyle(cell_spec, c, t, col_index) ==
  IF KnownToExist(c.header_row) /\ ~IsSome(t.header_row)
    THEN "Default"
    ELSE ResolveStyle(cell_spec, c.col_specs, col_index)

\* ctx.col_specs.get(col_index).cloned()
ColSpecAt(col_specs, col_index) ==
  IF col_index < Len(col_specs) THEN Some(col_specs[col_index + 1]) ELSE None

\* ParseCellData; src identifies the raw token span (and its location)
ParseCellData(toks, src, cell_spec, col_spec) ==
  [cell_tokens |-> toks, src |-> src, cell_spec |-> cell_spec,
   col_spec |-> col_spec]

\* Cell::new; id is the index of the source cell the cell was created for.
\* content: the tag, the token span it was resolved from, and the style whose
\* substitutions the spans were parsed with
NewCell(id, tag, src, subs, cell_spec, col_spec) ==
  [id |-> id,
   content |-> [tag |-> tag, src |-> src, subs |-> subs],
   spec |-> cell_spec,
   col_spec |-> col_spec]

\* parse_non_asciidoc_cell: the content is tagged with the style
ParseNonAsciidocCell(id, data, cell_style) ==
  NewCell(id, cell_style, data.src, cell_style, data.cell_spec, data.col_spec)

NoCell == [kind |-> "None", cell |-> None, repeat |-> 0]

\* the n diagnostics (warnings, or the errors of a failure) of the nested
\* parse of the source cell id, in order
Diagnostics(kind, id, n) == [k \in 1..n |-> [kind |-> kind, src |-> id, n |-> k]]

\* mutant of BuffersForReparse: the header state is not looked at
BuffersForReparseAnyState(h, cell_style) == cell_style \in {"AsciiDoc", "Literal"}

\* finish_cell: the cell's data is pushed to header_reparse_cells
BuffersForReparse(h, cell_style) ==
  IsUnknown(h) /\ cell_style \in {"AsciiDoc", "Literal"}

\* mutant of NestedFailureAborts: the mode is not looked at
NestedFailureAbortsAnyMode(nested, is_strict) == nested.diags # 0

\* mutant of NestedFailureAborts: a failed nested parse never aborts
NestedFailureAbortsNever(nested, is_strict) == FALSE

\* finish_cell: !diagnostics.is_empty() && self.strict
NestedFailureAborts(nested, is_strict) == nested.diags # 0 /\ is_strict

\* finish_cell, for the source cell `id` and the outcome `nested` of its
\* nested parse: the context, the diagnostics and Result<Option<(Cell, u8)>>
FinishCell(cell_spec, cell_tokens, col_index, c, t, id, nested, is_strict, errs) ==
  LET col_spec == ColSpecAt(c.col_specs, col_index)
      cell_style == CellStyle(cell_spec, c, t, col_index)
      unknown == IsUnknown(c.header_row)
      popped == PoppedKinds(cell_tokens)
      stripped == StripTrailing(cell_tokens)
      can_infer ==
        CanInferImplicitHeader(c.header_row, c.can_infer_implicit_header, popped)
      data == ParseCellData(stripped, id, cell_spec, col_spec)
      buffered == BuffersForReparse(c.header_row, cell_style)
      c1 == [c EXCEPT !.can_infer_implicit_header = can_infer,
                      !.header_reparse_cells =
                        IF buffered THEN Append(@, data) ELSE @]
      repeat == cell_spec.duplication
  IN IF cell_style = "AsciiDoc"
       THEN IF nested.ok
              THEN [ctx |-> c1,
                    errors |-> errs \o Diagnostics("warning", id, nested.diags),
                    ret |-> [kind |-> "Some", repeat |-> repeat,
                             cell |-> Some(NewCell(id, "AsciiDoc", id, "AsciiDoc",
                                                   cell_spec, col_spec))]]
            ELSE IF NestedFailureAborts(nested, is_strict)
              THEN [ctx |-> c1, errors |-> errs,
                    ret |-> [NoCell EXCEPT !.kind = "Err"]]
            ELSE [ctx |-> c1,
                  errors |-> errs \o Diagnostics("nested", id, nested.diags),
                  ret |-> NoCell]
       ELSE [ctx |-> c1, errors |-> errs,
             ret |-> [kind |-> "Some", repeat |-> repeat,
                      cell |-> Some(ParseNonAsciidocCell(id, data, cell_style))]]

\* reparse_header_cells, from cell idx on. panic: Vec::remove(0) on an
\* empty header_reparse_cells
RECURSIVE ReparseFrom(_, _, _)
ReparseFrom(row, buf, idx) ==
  IF idx > Len(row)
    THEN [row |-> row, buf |-> buf, panic |-> FALSE]
    ELSE LET tag == row[idx].content.tag IN
         IF tag \in {"AsciiDoc", "Literal"}
           THEN IF buf = <<>>
                  THEN [row |-> row, buf |-> buf, panic |-> TRUE]
                  ELSE LET cell == ParseNonAsciidocCell(row[idx].id, Head(buf), "Default")
                       IN ReparseFrom([row EXCEPT ![idx].content = cell.content],
                                      Tail(buf), idx + 1)
         ELSE IF tag \in {"Emphasis", "Header", "Monospace", "Strong"}
           THEN ReparseFrom([row EXCEPT ![idx].content.tag = "Default"], buf, idx + 1)
         ELSE ReparseFrom(row, buf, idx + 1)

ReparseHeaderCells(row, c) == ReparseFrom(row, c.header_reparse_cells, 1)

(***************************************************************************)
(* Recording rows.                                                         *)
(***************************************************************************)
\* the outcome of recording a row: the context, the table, whether
\* reparse_header_cells ran and whether it panicked
Recorded(c, t, reparsed, panic) ==
  [ctx |-> c, table |-> t, reparsed |-> reparsed, panic |-> panic]

\* mutant of PushAsHeader: a header known to exist is not looked at
PushAsHeaderInferredOnly(c, t) ==
  /\ t.rows = <<>>
  /\ ~IsSome(t.header_row)
  /\ c.can_infer_implicit_header

\* mutant of PushAsHeader: the rows and the header row are not looked at
PushAsHeaderAnyRow(c, t) ==
  KnownToExist(c.header_row) \/ c.can_infer_implicit_header

\* push_table_row: the condition under which the row becomes the header
PushAsHeader(c, t) ==
  /\ t.rows = <<>>
  /\ ~IsSome(t.header_row)
  /\ (KnownToExist(c.header_row) \/ c.can_infer_implicit_header)

\* mutant of BodyRowState: the state is left as it is
BodyRowStateKept(h) == h

\* mutant of BodyRowState: the state is set whatever it was
BodyRowStateAlways(h) == "FoundNone"

\* push_table_row: the header state once a body row is pushed
BodyRowState(h) == IF IsUnknown(h) THEN "FoundNone" ELSE h

\* mutant of PushTableRow: the cells of every header row are reparsed
PushTableRowReparsesKnown(row, c, t) ==
  IF PushAsHeader(c, t)
    THEN LET r == ReparseHeaderCells(row, c)
             c1 == [c EXCEPT !.header_row = IF IsUnknown(@) THEN "FoundImplicit" ELSE @,
                             !.header_reparse_cells = r.buf]
         IN IF r.panic
              THEN Recorded(c1, t, TRUE, TRUE)
              ELSE Recorded(c1, [t EXCEPT !.header_row = Some(r.row)], TRUE, FALSE)
    ELSE Recorded([c EXCEPT !.header_row = BodyRowState(@)],
                  [t EXCEPT !.rows = Append(@, row)], FALSE, FALSE)

\* push_table_row
PushTableRow(row, c, t) ==
  IF PushAsHeader(c, t)
    THEN IF IsUnknown(c.header_row)
           THEN LET r == ReparseHeaderCells(row, c)
                    c1 == [c EXCEPT !.header_row = "FoundImplicit",
                                    !.header_reparse_cells = r.buf]
                IN IF r.panic
                     THEN Recorded(c1, t, TRUE, TRUE)
                     ELSE Recorded(c1, [t EXCEPT !.header_row = Some(r.row)],
                                   TRUE, FALSE)
           ELSE Recorded(c, [t EXCEPT !.header_row = Some(row)], FALSE, FALSE)
    ELSE Recorded([c EXCEPT !.header_row = BodyRowState(@)],
                  [t EXCEPT !.rows = Append(@, row)], FALSE, FALSE)

\* mutant of FinishImplicitHeaderRow: an inferred header row is recorded
\* without the state change and the reparse
FinishImplicitHeaderRowKeepsState(row, c, t) ==
  IF row = <<>>
    THEN Recorded(c, t, FALSE, FALSE)
    ELSE
      LET width == IF c.autowidths THEN Auto ELSE Proportional(1)
          c0 == [c EXCEPT !.effective_row_idx = @ + 1]
          t0 == [t EXCEPT !.col_widths = [i \in 1..c.num_cols |-> width]]
      IN IF KnownToExist(c0.header_row) \/ c0.can_infer_implicit_header
           THEN Recorded(c0, [t0 EXCEPT !.header_row = Some(row)], FALSE, FALSE)
           ELSE Recorded([c0 EXCEPT !.header_row =
                                      IF IsUnknown(@) THEN "FoundNone" ELSE @],
                         [t0 EXCEPT !.rows = Append(@, row)], FALSE, FALSE)

\* mutant of FinishImplicitHeaderRow: a row without cells is recorded too
FinishImplicitHeaderRowEmpty(row, c, t) ==
  LET width == IF c.autowidths THEN Auto ELSE Proportional(1)
      c0 == [c EXCEPT !.effective_row_idx = @ + 1]
      t0 == [t EXCEPT !.col_widths = [i \in 1..c.num_cols |-> width]]
  IN IF KnownToExist(c0.header_row) \/ c0.can_infer_implicit_header
       THEN IF IsUnknown(c0.header_row)
              THEN LET r == ReparseHeaderCells(row, c0)
                       c1 == [c0 EXCEPT !.header_row = "FoundImplicit",
                                        !.header_reparse_cells = r.buf]
                   IN IF r.panic
                        THEN Recorded(c1, t0, TRUE, TRUE)
                        ELSE Recorded(c1, [t0 EXCEPT !.header_row = Some(r.row)],
                                      TRUE, FALSE)
              ELSE Recorded(c0, [t0 EXCEPT !.header_row = Some(row)],
                            FALSE, FALSE)
       ELSE Recorded([c0 EXCEPT !.header_row =
                                  IF IsUnknown(@) THEN "FoundNone" ELSE @],
                     [t0 EXCEPT !.rows = Append(@, row)], FALSE, FALSE)

\* finish_implicit_header_row
FinishImplicitHeaderRow(row, c, t) ==
  IF row = <<>>
    THEN Recorded(c, t, FALSE, FALSE)
    ELSE
      LET width == IF c.autowidths THEN Auto ELSE Proportional(1)
          c0 == [c EXCEPT !.effective_row_idx = @ + 1]
          t0 == [t EXCEPT !.col_widths = [i \in 1..c.num_cols |-> width]]
      IN IF KnownToExist(c0.header_row) \/ c0.can_infer_implicit_header
           THEN IF IsUnknown(c0.header_row)
                  THEN LET r == ReparseHeaderCells(row, c0)
                           c1 == [c0 EXCEPT !.header_row = "FoundImplicit",
                                            !.header_reparse_cells = r.buf]
                       IN IF r.panic
                            THEN Recorded(c1, t0, TRUE, TRUE)
                            ELSE Recorded(c1, [t0 EXCEPT !.header_row = Some(r.row)],
                                          TRUE, FALSE)
                  ELSE Recorded(c0, [t0 EXCEPT !.header_row = Some(row)],
                                FALSE, FALSE)
           ELSE Recorded([c0 EXCEPT !.header_row =
                                      IF IsUnknown(@) THEN "FoundNone" ELSE @],
                         [t0 EXCEPT !.rows = Append(@, row)], FALSE, FALSE)

(***************************************************************************)
(* The state machine of parse_table.                                       *)
(***************************************************************************)
\* the table blocks and parser modes explored
MetaInputs ==
  [opts : SUBSET Options, format : FormatAttrs, separator : SeparatorInputs,
   col_specs : ColSpecInputs]

\* lines.num_lines() once the delimiter line is consumed: the contiguous
\* lines after it (none, one, several)
LineCounts == {0, 1, 2}

\* the lines read_line returns after the contiguous lines, up to the closing
\* delimiter or the end of input: none, or a blank line and one more line
RestCounts == {0, 2}

\* the lines after the opening delimiter; closed: the last of them is the
\* closing delimiter
LineInputs ==
  {l \in [num_lines : LineCounts, rest : RestCounts, closed : BOOLEAN] :
     l.closed => l.num_lines + l.rest > 0}

\* line.src == start_delim.src, for the i-th line after the opening delimiter
IsDelimLine(l, i) == l.closed /\ i = l.num_lines + l.rest

\* mutant of ReadLines: no line is read after the contiguous lines
ReadLinesNone(l, i, n) == [found |-> FALSE, drained |-> n]

\* table_content: the loop over the lines read_line returns, from line i on
RECURSIVE ReadLines(_, _, _)
ReadLines(l, i, n) ==
  IF i > l.num_lines + l.rest THEN [found |-> FALSE, drained |-> n]
  ELSE IF IsDelimLine(l, i) THEN [found |-> TRUE, drained |-> n]
  ELSE ReadLines(l, i + 1, n + 1)

\* table_content: the loop over the contiguous lines, from line i on, then
\* the loop over the lines read_line returns. found: the closing delimiter
\* was met; drained: the lines drained into the token buffer
RECURSIVE ConsumeLines(_, _, _)
ConsumeLines(l, i, n) ==
  IF i > l.num_lines THEN ReadLines(l, i, n)
  ELSE IF IsDelimLine(l, i) THEN [found |-> TRUE, drained |-> n]
  ELSE ConsumeLines(l, i + 1, n + 1)

NeverClosedMsg == "Table never closed, started here"

\* the diagnostic of err_line(msg, start_delim)
NeverClosedDiagnostic ==
  [kind |-> "never closed", src |-> 0, msg |-> NeverClosedMsg,
   line |-> "start_delim"]

\* the table options but autowidth
HeaderOptions == {"header", "noheader", "footer"}

\* no call of finish_cell yet
NoCall ==
  [id |-> 0, marker |-> "None", col_index |-> 0, state |-> "Unknown",
   recorded |-> FALSE, nested |-> NestedOk, kind |-> "None", tag |-> "none",
   toks |-> <<>>]

\* parse_table is called: the table block, the parser mode, the lines
TableInit(metas, delims, lineses) ==
  /\ pc = "start"
  /\ meta \in metas
  /\ strict \in BOOLEAN
  /\ delim_ch \in delims
  /\ lines \in lineses
  /\ ctx = NewContext(DataFormat("Prefix", "|"), <<>>, {})
  /\ table = NewTable(<<>>)
  /\ tokens = 0
  /\ cells = <<>>
  /\ consumed = 0
  /\ errors = <<>>
  /\ yielded = <<>>
  /\ last_ws = <<>>
  /\ blanks = {}
  /\ call = NoCall
  /\ drained = 0
  /\ reparses = 0
  /\ grammars = {}

\* split_paragraphs is not called
SplitIdle ==
  /\ nodes = <<>>
  /\ paras = None

\* enter_table is not called
ColsIdle ==
  /\ widths = <<>>
  /\ colgroup = None

\* parse_non_asciidoc_cell is not called on its own: a parser with the normal
\* substitutions
SubsIdle ==
  /\ ctx_subs = NormalSubs
  /\ inlined = None

\* no function is checked on its own
AuxIdle ==
  /\ SplitIdle
  /\ ColsIdle
  /\ SubsIdle

InitWith(metas, delims, lineses) ==
  /\ TableInit(metas, delims, lineses)
  /\ AuxIdle

\* parse_table up to the header state: format, separator, context
Start ==
  /\ pc = "start"
  /\ LET sep == SeparatorAttr(meta.separator, SelectFormat(meta.format, delim_ch))
         c == NewContext(sep.format, meta.col_specs, meta.opts)
     IN IF sep.malformed /\ ErrAborts(strict)
          THEN /\ pc' = "error"
               /\ errors' = Append(errors, SeparatorDiagnostic(sep.pattern))
               /\ UNCHANGED <<ctx, table>>
          ELSE /\ pc' = "content"
               /\ errors' = IF sep.malformed
                              THEN Append(errors, SeparatorDiagnostic(sep.pattern))
                              ELSE errors
               /\ ctx' = [c EXCEPT !.header_row =
                                     InitialHeaderRow(meta.opts, lines.num_lines)]
               /\ table' = NewTable(meta.col_specs)
  /\ UNCHANGED <<meta, strict, delim_ch, lines, tokens, cells, consumed, yielded,
                 last_ws, blanks, call, drained, reparses, grammars>>
  /\ UNCHANGED aux

\* table_content: the token buffer up to the closing delimiter, or the
\* "Table never closed" error at the end of input
TableContent ==
  /\ pc = "content"
  /\ LET r == ConsumeLines(lines, 1, 0)
     IN /\ drained' = r.drained
        /\ IF ~r.found /\ ErrAborts(strict)
             THEN /\ pc' = "error"
                  /\ errors' = Append(errors, NeverClosedDiagnostic)
                  /\ UNCHANGED tokens
             ELSE /\ pc' = IF ctx.counting_cols THEN "implicit" ELSE "rows"
                  /\ errors' = IF ~r.found
                                 THEN Append(errors, NeverClosedDiagnostic)
                                 ELSE errors
                  /\ tokens' \in IF r.drained = 0 THEN {0} ELSE 0..MaxCells
  /\ UNCHANGED <<meta, strict, delim_ch, lines, ctx, table, cells, consumed, yielded,
                 last_ws, blanks, call, reparses, grammars>>
  /\ UNCHANGED aux

\* parse_table: matches!(ctx.format, DataFormat::Delimited(_)) selects the
\* parse_dsv_* row parsers, every other format the parse_psv_* row parsers
RowGrammar(format) == IF format.kind = "Delimited" THEN "dsv" ELSE "psv"

\* the row parser parse_table calls at position p: the implicit-first-row
\* pass or the row loop, in the grammar of the format
RowParser(p, format) ==
  [pass |-> IF p = "implicit" THEN "implicit" ELSE "rows",
   grammar |-> RowGrammar(format)]

\* the row parser has the cells of a whole row
RowComplete ==
  /\ cells # <<>>
  /\ (Len(cells) >= ctx.num_cols \/ tokens = 0)

\* `repeat` adjacent copies of a cell
Copies(cell, repeat) == [i \in 1..repeat |-> cell]

\* the cell's tokens end with a blank line: "\n\n"
EndsBlank(toks) ==
  /\ Len(toks) > 1
  /\ toks[Len(toks) - 1] = "Newline"
  /\ toks[Len(toks)] = "Newline"

\* a blank line directly follows the cell's content: the first two
\* tokens after the last token that is not whitespace-ish are newlines
BlankAfterContent(toks) ==
  \E k \in 0..Len(toks) :
    /\ k + 2 <= Len(toks)
    /\ k > 0 => toks[k] \notin WsKinds
    /\ \A i \in (k + 1)..Len(toks) : toks[i] \in WsKinds
    /\ toks[k + 1] = "Newline"
    /\ toks[k + 2] = "Newline"

\* what the history records of a cell's tokens
BlankFacts(toks) ==
  {f \in {"end", "after content"} :
     \/ f = "end" /\ EndsBlank(toks)
     \/ f = "after content" /\ BlankAfterContent(toks)}

\* one cell of the row parsers (parse_psv_* / parse_dsv_*): the next source
\* cell goes through finish_cell and is added to the row in progress
ParseCell(dups, styles) ==
  /\ pc \in {"implicit", "rows"}
  /\ tokens > 0
  /\ pc = "rows" => ~(cells # <<>> /\ Len(cells) >= ctx.num_cols)
  /\ \E style \in styles, dup \in dups, run \in WsRuns :
       LET cell_spec == [style |-> style, duplication |-> dup]
           cell_tokens == <<"Word">> \o run
           asciidoc == CellStyle(cell_spec, ctx, table, Len(cells)) = "AsciiDoc"
       IN \E nested \in IF asciidoc THEN NestedOutcomes ELSE {NestedOk} :
            LET r == FinishCell(cell_spec, cell_tokens, Len(cells), ctx, table,
                                consumed + 1, nested, strict, errors)
            IN /\ ctx' = r.ctx
               /\ errors' = r.errors
               /\ pc' = IF r.ret.kind = "Err" THEN "error" ELSE pc
               /\ cells' = IF r.ret.kind = "Some"
                              THEN cells \o Copies(r.ret.cell[1], r.ret.repeat)
                              ELSE cells
               /\ last_ws' = IF IsUnknown(ctx.header_row)
                           THEN PoppedKinds(cell_tokens)
                           ELSE <<>>
               /\ blanks' = IF IsUnknown(ctx.header_row)
                              THEN blanks \cup BlankFacts(cell_tokens)
                              ELSE blanks
               /\ call' = [id |-> consumed + 1,
                           marker |-> style,
                           col_index |-> Len(cells),
                           state |-> ctx.header_row,
                           recorded |-> IsSome(table.header_row),
                           nested |-> nested,
                           kind |-> r.ret.kind,
                           tag |-> IF r.ret.kind = "Some"
                                     THEN r.ret.cell[1].content.tag
                                     ELSE "none",
                           toks |-> IF IsUnknown(ctx.header_row)
                                      THEN cell_tokens
                                      ELSE <<>>]
  /\ tokens' = tokens - 1
  /\ consumed' = consumed + 1
  /\ grammars' = grammars \cup {RowParser(pc, ctx.format)}
  /\ UNCHANGED <<meta, strict, delim_ch, lines, table, yielded, drained,
                 reparses>>
  /\ UNCHANGED aux

\* the end of parse_*_implicit_first_row: the cells of the first line fix
\* the column count and go to finish_implicit_header_row
ImplicitFirstRow ==
  /\ pc = "implicit"
  /\ consumed > 0 \/ tokens = 0
  /\ LET c == [ctx EXCEPT !.num_cols = Len(cells)]
         r == FinishImplicitHeaderRow(cells, c, table)
     IN /\ ctx' = r.ctx
        /\ table' = r.table
        /\ pc' = IF r.panic THEN "panic" ELSE "rows"
        /\ reparses' = IF r.reparsed THEN reparses + 1 ELSE reparses
  /\ yielded' = IF cells = <<>> THEN yielded ELSE Append(yielded, cells)
  /\ cells' = <<>>
  /\ UNCHANGED <<meta, strict, delim_ch, lines, tokens, consumed, errors, last_ws,
                 blanks, call, drained>>
  /\ grammars' = grammars \cup {RowParser(pc, ctx.format)}
  /\ UNCHANGED aux

\* parse_table: the row loop takes a row from the row parser and pushes it
PushRow ==
  /\ pc = "rows"
  /\ RowComplete
  /\ LET r == PushTableRow(cells, ctx, table)
     IN /\ ctx' = r.ctx
        /\ table' = r.table
        /\ pc' = IF r.panic THEN "panic" ELSE "rows"
        /\ reparses' = IF r.reparsed THEN reparses + 1 ELSE reparses
  /\ yielded' = Append(yielded, cells)
  /\ cells' = <<>>
  /\ UNCHANGED <<meta, strict, delim_ch, lines, tokens, consumed, errors, last_ws,
                 blanks, call, drained>>
  /\ grammars' = grammars \cup {RowParser(pc, ctx.format)}
  /\ UNCHANGED aux

\* mutant of PopFooter: the first row is taken instead of the last
PopFooterFirst(t, opts) ==
  IF "footer" \in opts /\ t.rows # <<>>
    THEN [t EXCEPT !.footer_row = Some(t.rows[1]), !.rows = Tail(t.rows)]
    ELSE t

\* parse_table: the footer row
PopFooter(t, opts) ==
  IF "footer" \in opts /\ t.rows # <<>>
    THEN [t EXCEPT !.footer_row = Some(t.rows[Len(t.rows)]),
                   !.rows = SubSeq(t.rows, 1, Len(t.rows) - 1)]
    ELSE t

\* parse_table: the row parser returns None, the row loop ends, the footer
\* row is popped and the Block returned
Finish ==
  /\ pc = "rows"
  /\ tokens = 0
  /\ cells = <<>>
  /\ table' = PopFooter(table, meta.opts)
  /\ pc' = "done"
  /\ UNCHANGED <<meta, strict, delim_ch, lines, ctx, tokens, cells, consumed, errors,
                 yielded, last_ws, blanks, call, drained, reparses>>
  /\ grammars' = grammars \cup {RowParser(pc, ctx.format)}
  /\ UNCHANGED aux

Next ==
  \/ Start
  \/ TableContent
  \/ ParseCell({1}, SpecStyles)
  \/ ImplicitFirstRow
  \/ PushRow
  \/ Finish

\* the header machinery: closed pipe-delimited tables without format or
\* separator attributes, cells without duplication
Init ==
  InitWith({m \in MetaInputs : /\ m.format = "none"
                               /\ m.separator = None
                               /\ m.opts \subseteq HeaderOptions},
           {"|"}, {l \in LineInputs : l.closed})

Spec == Init /\ [][Next]_vars

\* the format selection: every format attribute, delimiter character and
\* separator value, closed or not, over multi-line tables of unstyled cells
\* with at most one declared column
InitFormat ==
  InitWith({m \in MetaInputs :
              /\ m.opts = {}
              /\ Len(m.col_specs) <= 1
              /\ \A i \in 1..Len(m.col_specs) : m.col_specs[i].style = "Default"},
           DelimChars, {l \in LineInputs : l.num_lines > 1})

NextFormat ==
  \/ Start
  \/ TableContent
  \/ ParseCell({1}, {"None"})
  \/ ImplicitFirstRow
  \/ PushRow
  \/ Finish

SpecFormat == InitFormat /\ [][NextFormat]_vars

(***************************************************************************)
(* enter_table: the <colgroup> of the rendered table.                      *)
(***************************************************************************)
\* a percentage is a fixed-point number, a count of units of 10^-FracDigits
FracDigits == 5

\* the precision of format!("{:.4}", width)
Precision == 4

RECURSIVE Pow10(_)
Pow10(k) == IF k = 0 THEN 1 ELSE 10 * Pow10(k - 1)

Scale == Pow10(FracDigits)

\* DistributedColWidth::Percentage; DistributedColWidth::Auto is Auto
Percentage(v) == [kind |-> "Percentage", n |-> v]

\* the total weight of the proportional columns
RECURSIVE TotalWeight(_)
TotalWeight(col_widths) ==
  IF col_widths = <<>> THEN 0
  ELSE (IF col_widths[1].kind = "Proportional" THEN col_widths[1].n ELSE 0)
         + TotalWeight(Tail(col_widths))

\* ColWidths::distribute: a proportional column gets its share of the total
\* weight as a percentage, an Auto column no width
Distribute(col_widths) ==
  [i \in 1..Len(col_widths) |->
     IF col_widths[i].kind = "Proportional"
       THEN Percentage((100 * Scale * col_widths[i].n) \div TotalWeight(col_widths))
       ELSE Auto]

DigitChars == <<"0", "1", "2", "3", "4", "5", "6", "7", "8", "9">>

\* the decimal digits of a natural number
RECURSIVE Decimal(_)
Decimal(n) ==
  IF n < 10 THEN <<DigitChars[n + 1]>>
  ELSE Append(Decimal(n \div 10), DigitChars[(n % 10) + 1])

\* the last k decimal digits of a natural number, with leading zeros
RECURSIVE Padded(_, _)
Padded(n, k) ==
  IF k = 0 THEN <<>>
  ELSE Append(Padded(n \div 10, k - 1), DigitChars[(n % 10) + 1])

\* f64::fract
Fract(v) == v % Scale

\* format!("{}", width) of a width without fractional part
Display(v) == Decimal(v \div Scale)

\* format!("{:.prec}", width): rounded to prec fractional digits, ties to
\* even, and printed with all of them
FormatFixed(v, prec) ==
  LET unit == Pow10(FracDigits - prec)
      q == v \div unit
      r == v % unit
      up == 2 * r > unit \/ (2 * r = unit /\ q % 2 = 1)
      rounded == IF up THEN q + 1 ELSE q
  IN Decimal(rounded \div Pow10(prec)) \o <<".">>
       \o Padded(rounded % Pow10(prec), prec)

\* str::trim_end_matches(ch)
RECURSIVE TrimEndMatches(_, _)
TrimEndMatches(s, ch) ==
  IF s # <<>> /\ s[Len(s)] = ch
    THEN TrimEndMatches(SubSeq(s, 1, Len(s) - 1), ch)
    ELSE s

\* the number enter_table prints before the '%' of a percentage width
PrintedWidth(v) ==
  IF Fract(v) = 0 THEN Display(v)
  ELSE TrimEndMatches(FormatFixed(v, Precision), "0")

\* mutant of WidthStyle: the autowidth option is not looked at
WidthStyleIgnoresAutowidth(width, autowidth) ==
  IF width.kind = "Percentage" THEN Some(PrintedWidth(width.n)) ELSE None

\* enter_table: the width of the style attribute of one <col>, if it gets one
WidthStyle(width, autowidth) ==
  IF ~autowidth /\ width.kind = "Percentage"
    THEN Some(PrintedWidth(width.n))
    ELSE None

\* enter_table: one <col> for each distributed width
ColGroup(dist, autowidth) ==
  [i \in 1..Len(dist) |-> [tag |-> "col", width |-> WidthStyle(dist[i], autowidth)]]

\* enter_table of the table parse_table returned
EnterTable ==
  /\ pc = "done"
  /\ colgroup = None
  /\ widths' = Distribute(table.col_widths)
  /\ colgroup' = Some(ColGroup(widths', "autowidth" \in meta.opts))
  /\ UNCHANGED <<pc, meta, strict, delim_ch, lines, ctx, table, tokens, cells,
                 consumed, errors, yielded, last_ws, blanks, call, drained,
                 reparses, grammars, nodes, paras, ctx_subs, inlined>>

\* enter_table of a table with the column widths `widths`
EnterTableOf ==
  /\ pc = "start"
  /\ colgroup = None
  /\ colgroup' = Some(ColGroup(widths, "autowidth" \in meta.opts))
  /\ UNCHANGED <<pc, meta, strict, delim_ch, lines, ctx, table, tokens, cells,
                 consumed, errors, yielded, last_ws, blanks, call, drained,
                 reparses, grammars, nodes, paras, widths, ctx_subs, inlined>>

\* the whole parts and the fractional digits of the percentages tried
WholeInputs == {0, 9, 33, 99, 100}

FracDigitInputs == {0, 4, 5, 9}

RECURSIVE FracValue(_)
FracValue(digits) ==
  IF digits = <<>> THEN 0
  ELSE 10 * FracValue(SubSeq(digits, 1, Len(digits) - 1)) + digits[Len(digits)]

PercentageInputs ==
  {Percentage(w * Scale + FracValue(d)) :
     w \in WholeInputs, d \in [1..FracDigits -> FracDigitInputs]}

\* a first column of any width tried, followed by columns without width or of
\* half the table
DistributedInputs ==
  {<<>>} \cup
  {<<first>> \o rest :
     first \in PercentageInputs \cup {Auto},
     rest \in SeqsUpTo({Auto, Percentage(50 * Scale)}, MaxCols - 1)}

\* enter_table on its own: every width tried, with and without `autowidth`
InitCols ==
  /\ TableInit([opts : SUBSET {"autowidth"}, format : {"none"},
                separator : {None}, col_specs : {<<>>}],
               {"|"}, {[num_lines |-> 1, rest |-> 0, closed |-> TRUE]})
  /\ strict
  /\ widths \in DistributedInputs
  /\ colgroup = None
  /\ SplitIdle
  /\ SubsIdle

NextCols == EnterTableOf

SpecCols == InitCols /\ [][NextCols]_vars

(***************************************************************************)
(* The column widths of parsed tables.                                     *)
(***************************************************************************)
\* the column specs of a `cols` attribute with widths: up to MaxCols
\* unstyled columns of the proportional widths 1 and 2
WidthColInputs ==
  SeqsUpTo([width : {Proportional(1), Proportional(2)}, style : {"Default"}],
           MaxCols)

\* the column widths: closed pipe-delimited tables with or without the
\* `autowidth` option, with declared columns of different widths or with
\* implicitly counted columns
InitWidths ==
  InitWith([opts : SUBSET {"autowidth"}, format : {"none"}, separator : {None},
            col_specs : WidthColInputs],
           {"|"}, {l \in LineInputs : l.closed /\ l.rest = 0})

NextWidths ==
  \/ Start
  \/ TableContent
  \/ ParseCell({1}, {"None", "Strong"})
  \/ ImplicitFirstRow
  \/ PushRow
  \/ Finish
  \/ EnterTable

SpecWidths == InitWidths /\ [][NextWidths]_vars

(***************************************************************************)
(* split_paragraphs.                                                       *)
(***************************************************************************)
\* the inline nodes: the joining newline and two kinds of other nodes
InlineKinds == {"Newline", "Text", "Bold"}

\* mutant of WithoutLast: the newline that ends the paragraph is kept
WithoutLastKept(para) == para

\* paras[index].pop()
WithoutLast(para) == SubSeq(para, 1, Len(para) - 1)

\* split_paragraphs: the loop over the nodes, from node i on
RECURSIVE SplitFrom(_, _, _)
SplitFrom(ns, i, ps) ==
  IF i > Len(ns) THEN ps
  ELSE LET index == Len(ps)
           node == ns[i]
       IN IF /\ node = "Newline"
             /\ ps[index] # <<>>
             /\ ps[index][Len(ps[index])] = "Newline"
            THEN SplitFrom(ns, i + 1,
                           Append([ps EXCEPT ![index] = WithoutLast(@)], <<>>))
            ELSE SplitFrom(ns, i + 1, [ps EXCEPT ![index] = Append(@, node)])

\* split_paragraphs
SplitParagraphs(ns) == IF ns = <<>> THEN <<>> ELSE SplitFrom(ns, 1, << <<>> >>)

\* split_paragraphs is called with the nodes and returns the paragraphs
SplitParagraphsCall ==
  /\ paras = None
  /\ paras' = Some(SplitParagraphs(nodes))
  /\ UNCHANGED <<pc, meta, strict, delim_ch, lines, ctx, table, tokens, cells,
                 consumed, errors, yielded, last_ws, blanks, call, drained,
                 reparses, grammars, nodes, widths, colgroup, ctx_subs, inlined>>

\* a parser in strict mode that has not begun a table
IdleTable ==
  /\ TableInit({[opts |-> {}, format |-> "none", separator |-> None,
                 col_specs |-> <<>>]},
               {"|"}, {[num_lines |-> 1, rest |-> 0, closed |-> TRUE]})
  /\ strict

\* every sequence of up to MaxNodes inline nodes
InitSplit ==
  /\ IdleTable
  /\ nodes \in SeqsUpTo(InlineKinds, MaxNodes)
  /\ paras = None
  /\ ColsIdle
  /\ SubsIdle

NextSplit == SplitParagraphsCall

SpecSplit == InitSplit /\ [][NextSplit]_vars

(***************************************************************************)
(* parse_non_asciidoc_cell and the active substitutions.                   *)
(***************************************************************************)
\* Substitutions::from(cell_style): the substitutions a cell of the style is
\* parsed with
SubsFor(cell_style) ==
  IF cell_style = "Literal" THEN VerbatimSubs ELSE NormalSubs

\* what parse_inlines can return: an error is returned in strict mode only
InlineOutcomes(is_strict) ==
  IF ErrAborts(is_strict) THEN {"Ok", "Err"} ELSE {"Ok"}

\* parse_non_asciidoc_cell: what it returns and the substitutions it leaves
\* behind. Without tokens the inline parser is not called; with tokens
\* ctx.subs is set from the style, and restored after parse_inlines unless
\* its error is returned by the `?`
InlineCell(prev_subs, cell_tokens, cell_style, outcome) ==
  IF cell_tokens = <<>>
    THEN [ret |-> "Ok", subs |-> prev_subs]
  ELSE IF outcome = "Err"
    THEN [ret |-> "Err", subs |-> SubsFor(cell_style)]
  ELSE [ret |-> "Ok", subs |-> prev_subs]

\* a call of parse_non_asciidoc_cell
ParseNonAsciidocCellCall ==
  /\ pc = "start"
  /\ inlined = None
  /\ \E cell_style \in CellContentStyle \ {"AsciiDoc"},
        cell_tokens \in {<<>>, <<"Word">>},
        outcome \in InlineOutcomes(strict) :
       LET r == InlineCell(ctx_subs, cell_tokens, cell_style, outcome)
       IN /\ ctx_subs' = r.subs
          /\ inlined' = Some([cell_style |-> cell_style,
                              cell_tokens |-> cell_tokens,
                              ret |-> r.ret,
                              prev_subs |-> ctx_subs])
  /\ UNCHANGED <<pc, meta, strict, delim_ch, lines, ctx, table, tokens, cells,
                 consumed, errors, yielded, last_ws, blanks, call, drained,
                 reparses, grammars, nodes, paras, widths, colgroup>>

\* parse_non_asciidoc_cell on its own: a parser, strict or lenient, with any
\* substitutions active
InitSubs ==
  /\ TableInit({[opts |-> {}, format |-> "none", separator |-> None,
                 col_specs |-> <<>>]},
               {"|"}, {[num_lines |-> 1, rest |-> 0, closed |-> TRUE]})
  /\ ctx_subs \in SUBSET SubKinds
  /\ inlined = None
  /\ SplitIdle
  /\ ColsIdle

NextSubs == ParseNonAsciidocCellCall

SpecSubs == InitSubs /\ [][NextSubs]_vars

(***************************************************************************)
(* Properties of the header inference.                                     *)
(***************************************************************************)
\* parse_table has returned Ok(Block)
Returned == pc = "done"

\* the ids of the source cells of a row
RowIds(row) == [i \in 1..Len(row) |-> row[i].id]

\* the body rows of the table, the footer row back in its place
BodyRows == table.rows \o table.footer_row

\* C1 as stated: with the `noheader` option the returned table has no
\* header row.
C1_NoheaderNeverHeader ==
  (Returned /\ "noheader" \in meta.opts) => table.header_row = None

\* C1, amended: with the `noheader` option and without the `header` option
\* the returned table has no header row, whatever the body.
C1_NoheaderWithoutHeader ==
  (Returned /\ "noheader" \in meta.opts /\ "header" \notin meta.opts)
    => table.header_row = None

C1_Witness ==
  /\ Returned
  /\ "noheader" \in meta.opts
  /\ "header" \notin meta.opts
  /\ lines.num_lines = 1
  /\ Len(yielded) > 1
  /\ table.header_row = None

\* C2: with the `header` option the first row the row parser yields is the
\* header row, also when it is the only row, and the rows yielded after it
\* are the body rows in source order.
C2_HeaderOptionFirstRow ==
  ("header" \in meta.opts /\ yielded # <<>>)
    => /\ table.header_row = Some(yielded[1])
       /\ BodyRows = Tail(yielded)
       /\ ~Returned => table.rows = Tail(yielded)

C2_Witness ==
  /\ Returned
  /\ "header" \in meta.opts
  /\ Len(yielded) = 1
  /\ IsSome(table.header_row)
  /\ table.rows = <<>>

FirstRowInferred ==
  /\ ctx.header_row = "FoundImplicit"
  /\ IsSome(table.header_row)
  /\ RowIds(table.header_row[1]) = RowIds(yielded[1])
  /\ BodyRows = Tail(yielded)

\* a one-line table without `header` and `noheader` has been parsed
OneLineParsed ==
  /\ Returned
  /\ meta.opts \cap {"header", "noheader"} = {}
  /\ lines.num_lines = 1
  /\ yielded # <<>>

\* C4 as stated: in a one-line table without `header` and `noheader`, a
\* first-row cell whose tokens end with a double newline makes the first
\* row the header.
C4_EndsBlankInfersHeader ==
  (OneLineParsed /\ "end" \in blanks) => FirstRowInferred

\* C4, amended: in a one-line table without `header` and `noheader`, a
\* first-row cell whose content is directly followed by two newlines (the
\* last two tokens stripped from it) makes the first row the header.
C4_BlankAfterContentInfersHeader ==
  (OneLineParsed /\ "after content" \in blanks) => FirstRowInferred

C4_Witness ==
  /\ OneLineParsed
  /\ "after content" \in blanks
  /\ FirstRowInferred
  /\ Len(table.rows) > 0

\* C5: every cell of a populated header row has Default content, whatever
\* the column style and the cell's style marker.
C5_HeaderCellsDefault ==
  IsSome(table.header_row)
    => \A i \in 1..Len(table.header_row[1]) :
         table.header_row[1][i].content.tag = "Default"

C5_Witness ==
  /\ IsSome(table.header_row)
  /\ ctx.header_row = "FoundImplicit"
  /\ \E i \in 1..Len(table.header_row[1]) :
       LET cell == table.header_row[1][i]
       IN /\ cell.spec.style = "Literal"
          /\ IsSome(cell.col_spec)
          /\ cell.col_spec[1].style = "AsciiDoc"

\* C6: when the row loop ends, the `footer` option moves exactly the last
\* of N >= 1 accumulated rows to footer_row and leaves the other rows as
\* they are; with no rows, or without the option, the table is unchanged
\* and footer_row is None.
C6_FooterPop ==
  /\ table.footer_row = None
  /\ [][/\ (pc = "rows" /\ pc' = "done") =>
            LET n == Len(table.rows)
            IN IF "footer" \in meta.opts /\ n >= 1
                 THEN /\ table'.footer_row = Some(table.rows[n])
                      /\ table'.rows = SubSeq(table.rows, 1, n - 1)
                      /\ table'.header_row = table.header_row
                 ELSE /\ table' = table
                      /\ table'.footer_row = None
        /\ pc' # "done" => table'.footer_row = None
        /\ "footer" \notin meta.opts => table'.footer_row = None]_vars

C6_Witness ==
  /\ Returned
  /\ IsSome(table.footer_row)
  /\ Len(table.rows) > 1

\* C7: the header state never goes back to Unknown, and ExplicitlySet and
\* ExplicitlyUnset never change.
C7_HeaderStateNeverReverts ==
  [][/\ ctx.header_row # "Unknown" => ctx'.header_row # "Unknown"
     /\ ctx.header_row \in {"ExplicitlySet", "ExplicitlyUnset"}
          => ctx'.header_row = ctx.header_row]_vars

C7_Witness ==
  /\ Returned
  /\ ctx.header_row = "ExplicitlyUnset"
  /\ Len(table.rows) > 1

\* C8: the header row is populated only in the states ExplicitlySet and
\* FoundImplicit.
C8_HeaderOnlyWhenKnown ==
  IsSome(table.header_row) => ctx.header_row \in {"ExplicitlySet", "FoundImplicit"}

C8_Witness ==
  /\ IsSome(table.header_row)
  /\ ctx.header_row = "FoundImplicit"
  /\ pc = "rows"

\* C9: the header row is assigned at most once, to the first row yielded
\* while rows is empty, and every row recorded after it is appended to the
\* body rows and leaves the header row as it is.
C9_AtMostOneHeader ==
  [][/\ table'.header_row # table.header_row =>
          /\ table.header_row = None
          /\ table.rows = <<>>
          /\ table'.rows = <<>>
          /\ yielded = <<>>
          /\ Len(yielded') = 1
          /\ IsSome(table'.header_row)
          /\ RowIds(table'.header_row[1]) = RowIds(yielded'[1])
     /\ (IsSome(table.header_row) /\ yielded' # yielded) =>
          /\ table'.header_row = table.header_row
          /\ table'.rows = Append(table.rows, yielded'[Len(yielded')])]_vars

C9_Witness ==
  /\ IsSome(table.header_row)
  /\ Len(table.rows) > 1
  /\ pc = "rows"

(***************************************************************************)
(* Properties of the format selection.                                     *)
(***************************************************************************)
\* the `separator` attribute holds exactly the character ch
SeparatorIs(ch) == meta.separator = Some(<<ch>>)

\* C10: a `separator` attribute of exactly one character c raises no
\* separator error, makes c the cell separator and leaves the grammar kind
\* chosen from `format` and the delimiter character as it is.
C10_OneCharSeparator ==
  \A ch \in SepChars :
    (pc # "start" /\ SeparatorIs(ch)) =>
      /\ \A i \in 1..Len(errors) : errors[i].kind # "separator"
      /\ ctx.cell_separator = ch
      /\ ctx.format.sep = ch
      /\ ctx.format.kind = SelectFormat(meta.format, delim_ch).kind

C10_Witness ==
  /\ Returned
  /\ SeparatorIs(";")
  /\ meta.format = "csv"
  /\ ctx.format = DataFormat("Csv", ";")
  /\ ctx.cell_separator = ";"
  /\ Len(yielded) > 1

\* the `separator` attribute is empty or longer than one character
MalformedSeparator == IsSome(meta.separator) /\ Len(meta.separator[1]) # 1

StatedFormat(format_attr, ch) ==
  CASE format_attr = "psv" -> DataFormat("Prefix", "|")
    [] format_attr = "csv" -> DataFormat("Csv", ",")
    [] format_attr = "tsv" -> DataFormat("Csv", "tab")
    [] format_attr = "dsv" -> DataFormat("Delimited", ":")
    [] OTHER -> IF ch \in {":", ","}
                  THEN DataFormat("Delimited", ch)
                  ELSE DataFormat("Prefix", ch)

\* C12: a `format` attribute psv, csv, tsv or dsv decides the format
\* whatever the delimiter character, as Prefix('|'), Csv(','), Csv(tab) and
\* Delimited(':'); without it the delimiter character decides: ':' and ','
\* give Delimited, any other character c gives Prefix(c).
C12_FormatPrecedence ==
  (pc # "start" /\ meta.separator = None) =>
    ctx.format = StatedFormat(meta.format, delim_ch)

(***************************************************************************)
(* Properties of the cell resolution.                                      *)
(***************************************************************************)
\* the style of the content finish_cell resolved in its latest call: the
\* tag of the cell returned, AsciiDoc when the nested parse failed
CallStyle == IF call.kind = "Some" THEN call.tag ELSE "AsciiDoc"

\* the latest call of finish_cell was for a cell of a header row that is
\* known to exist and not recorded yet
CallForced == call.state \in {"ExplicitlySet", "FoundImplicit"} /\ ~call.recorded

\* C13: finish_cell resolves a cell with the cell spec's style marker if
\* there is one, else with the style of the column at the cell's index if
\* one is declared there, else with Default; while the header is known to
\* exist and is not recorded yet the style is Default whatever they are,
\* and no longer once the header row is recorded.
C13_StyleResolution ==
  call.id > 0 =>
    CallStyle =
      IF CallForced THEN "Default"
      ELSE IF call.marker # "None" THEN call.marker
      ELSE IF call.col_index + 1 \in DOMAIN meta.col_specs
        THEN meta.col_specs[call.col_index + 1].style
      ELSE "Default"

C13_Witness ==
  /\ "header" \in meta.opts
  /\ IsSome(table.header_row)
  /\ table.header_row[1][1].spec.style = "Strong"
  /\ table.header_row[1][1].content.tag = "Default"
  /\ call.recorded
  /\ call.marker = "None"
  /\ call.col_index = 0
  /\ Len(meta.col_specs) = 2
  /\ meta.col_specs[1].style = "AsciiDoc"
  /\ call.tag = "AsciiDoc"

\* the header row, the body rows and the footer row of the table
AllRows == table.header_row \o table.rows \o table.footer_row

\* the source cells the cells of the rows were created for
CellIdsIn(rows) ==
  UNION {{rows[i][j].id : j \in 1..Len(rows[i])} : i \in 1..Len(rows)}

\* the source cells whose nested parse failed, by the diagnostics sink
FailedIds ==
  {errors[i].src : i \in {k \in 1..Len(errors) : errors[k].kind = "nested"}}

\* C14: in lenient mode a failed nested parse of an AsciiDoc cell makes
\* finish_cell return no cell, the row in progress is left without it, all
\* the diagnostics of the failure are appended to the diagnostics sink in
\* order, the parse is not aborted, and the table returned holds every
\* other source cell.
C14_LenientNestedFailure ==
  /\ []((~strict /\ call.id > 0 /\ ~call.nested.ok) =>
          call.kind = "None" /\ pc \notin {"error", "panic"})
  /\ []((~strict /\ Returned) =>
          /\ tokens = 0
          /\ CellIdsIn(AllRows) = (1..consumed) \ FailedIds)
  /\ [][(~strict /\ consumed' # consumed /\ ~call'.nested.ok) =>
          /\ cells' = cells
          /\ errors' = errors \o Diagnostics("nested", consumed', call'.nested.diags)
          /\ pc' = pc
          /\ table' = table]_vars

C14_Witness ==
  /\ ~strict
  /\ Returned
  /\ consumed = 3
  /\ FailedIds = {1}
  /\ Len(errors) = 2
  /\ CellIdsIn(table.rows) = {2, 3}
  /\ Len(table.rows) = 2

NeverClosed ==
  /\ pc \notin {"start", "content"}
  /\ ~lines.closed
  /\ ~(strict /\ MalformedSeparator)

\* the diagnostics of the kind `kind` in the diagnostics sink
ErrorsOfKind(kind) == {i \in 1..Len(errors) : errors[i].kind = kind}

RecordsFirstRow ==
  /\ yielded' # yielded
  /\ table.rows = <<>>
  /\ table.header_row = None
  /\ pc' # "panic"

\* C17: when the first row is recorded, it becomes the header row iff the
\* state is ExplicitlySet or the can-infer-implicit-header flag is set;
\* from Unknown the state becomes FoundImplicit when it does and FoundNone
\* when it does not, the row then being the first body row; the other
\* states are kept. Once a row is recorded the state is never Unknown.
C17_FirstRowRecorded ==
  /\ [](yielded # <<>> => ctx.header_row # "Unknown")
  /\ [][RecordsFirstRow =>
          LET row == yielded'[Len(yielded')]
              header == ctx.header_row = "ExplicitlySet"
                          \/ ctx.can_infer_implicit_header
          IN /\ Len(yielded') = 1
             /\ IF header
                  THEN /\ IsSome(table'.header_row)
                       /\ RowIds(table'.header_row[1]) = RowIds(row)
                       /\ table'.rows = <<>>
                  ELSE /\ table'.header_row = None
                       /\ table'.rows = <<row>>
             /\ ctx'.header_row =
                  IF ctx.header_row # "Unknown" THEN ctx.header_row
                  ELSE IF header THEN "FoundImplicit"
                  ELSE "FoundNone"]_vars

C17_Witness ==
  /\ pc = "rows"
  /\ meta.opts = {}
  /\ lines.num_lines = 1
  /\ meta.col_specs # <<>>
  /\ Len(yielded) = 1
  /\ table.rows = yielded
  /\ ctx.header_row = "FoundNone"

\* C18: reparse_header_cells runs at most once in a table parse, on the
\* first row, in the step that takes the header state from Unknown to
\* FoundImplicit, and in no other state and on no body row.
C18_ReparseOnce ==
  /\ [](reparses <= 1)
  /\ [][reparses' # reparses =>
          /\ reparses = 0
          /\ ctx.header_row = "Unknown"
          /\ ctx'.header_row = "FoundImplicit"
          /\ yielded = <<>>
          /\ Len(yielded') = 1
          /\ table.rows = <<>>
          /\ table'.rows = <<>>]_vars
  /\ [][(ctx.header_row = "Unknown" /\ ctx'.header_row = "FoundImplicit") =>
          reparses' = reparses + 1]_vars

C18_Witness ==
  /\ Returned
  /\ reparses = 1
  /\ ctx.header_row = "FoundImplicit"
  /\ Len(table.rows) > 1

\* the content the reparse is to give the cell `cell` of the promoted row:
\* its own token span resolved as Default for AsciiDoc and Literal, the
\* same paragraphs retagged Default for the paragraph styles
ReparsedContent(cell) ==
  IF cell.content.tag \in {"AsciiDoc", "Literal"}
    THEN [tag |-> "Default", src |-> cell.id, subs |-> "Default"]
  ELSE IF cell.content.tag \in {"Emphasis", "Header", "Monospace", "Strong"}
    THEN [cell.content EXCEPT !.tag = "Default"]
  ELSE cell.content

\* C19: the reparse of the promoted first row replaces each AsciiDoc or
\* Literal cell by its own buffered token span resolved as Default, retags
\* each Emphasis, Header, Monospace or Strong cell Default with the same
\* paragraphs, leaves Default cells as they are, and keeps the number and
\* order of the cells and each cell's spec and col_spec.
C19_ReparseReplacesOwnSpan ==
  (reparses = 1 /\ IsSome(table.header_row)) =>
    LET reparsed == table.header_row[1]
        row == yielded[1]
    IN /\ Len(reparsed) = Len(row)
       /\ \A i \in 1..Len(row) :
            /\ reparsed[i].id = row[i].id
            /\ reparsed[i].spec = row[i].spec
            /\ reparsed[i].col_spec = row[i].col_spec
            /\ reparsed[i].content = ReparsedContent(row[i])

\* the entry finish_cell is to buffer for the cell of its latest call: the
\* tokens without the trailing whitespace, the span, the cell spec and the
\* column spec
CallEntry(entry) ==
  /\ entry.cell_tokens = StripTrailing(call.toks)
  /\ entry.src = call.id
  /\ entry.cell_spec.style = call.marker
  /\ entry.col_spec = IF call.col_index + 1 \in DOMAIN meta.col_specs
                         THEN Some(meta.col_specs[call.col_index + 1])
                         ELSE None

\* C20: while the header state is Unknown a call of finish_cell appends
\* one entry to the header-reparse buffer when the cell is resolved with
\* the AsciiDoc or Literal style, holding its stripped tokens, span, cell
\* spec and column spec, and none for the other styles; when the state is
\* not Unknown it appends none.
C20_ReparseBuffer ==
  /\ [](call.id > 0 =>
          LET buf == ctx.header_reparse_cells
          IN (call.id = consumed /\ call.state = "Unknown"
                /\ CallStyle \in {"AsciiDoc", "Literal"} /\ reparses = 0)
               => buf # <<>> /\ CallEntry(buf[Len(buf)]))
  /\ [][consumed' # consumed =>
          LET style == IF call'.kind = "Some" THEN call'.tag ELSE "AsciiDoc"
              buf == ctx.header_reparse_cells
          IN IF ctx.header_row = "Unknown" /\ style \in {"AsciiDoc", "Literal"}
               THEN /\ Len(ctx'.header_reparse_cells) = Len(buf) + 1
                    /\ SubSeq(ctx'.header_reparse_cells, 1, Len(buf)) = buf
               ELSE ctx'.header_reparse_cells = buf]_vars

C20_Witness ==
  /\ call.state = "Unknown"
  /\ call.tag = "Literal"
  /\ call.id = 3
  /\ reparses = 0
  /\ Len(ctx.header_reparse_cells) = 2
  /\ Len(cells) = 3

\* C21: while the header state is Unknown a call of finish_cell sets the
\* can-infer-implicit-header flag exactly when it stripped at least two
\* whitespace-ish tokens of which the last two stripped, those next to the
\* content, are newlines, and otherwise leaves the flag as it was; when
\* the state is not Unknown it sets the flag to false.
C21_InferFlag ==
  [][consumed' # consumed =>
       ctx'.can_infer_implicit_header =
         IF ctx.header_row = "Unknown"
           THEN ctx.can_infer_implicit_header \/ BlankAfterContent(call'.toks)
           ELSE FALSE]_vars

C21_Witness ==
  /\ ctx.header_row = "Unknown"
  /\ call.id = 2
  /\ call.toks # <<>>
  /\ ~BlankAfterContent(call.toks)
  /\ ctx.can_infer_implicit_header

(***************************************************************************)
(* Properties of the columns.                                              *)
(***************************************************************************)
\* the cells recorded in the table and those of the row in progress
AllCells ==
  UNION {{row[j] : j \in 1..Len(row)} : row \in {AllRows[i] : i \in 1..Len(AllRows)}}
    \cup {cells[j] : j \in 1..Len(cells)}

\* C22: the implicit-first-row pass runs exactly when `cols` resolved to no
\* column spec, once, before the row loop; every cell then resolves without
\* a column spec, and a non-empty implicit first row leaves one width entry
\* for each of its columns; with n >= 1 specs resolved the pass is skipped,
\* the column count is n and col_widths are the declared widths in order.
C22_ImplicitColumns ==
  /\ [](pc = "implicit" => meta.col_specs = <<>>)
  /\ [](meta.col_specs = <<>> =>
          /\ \A cell \in AllCells : cell.col_spec = None
          /\ call.id > 0 =>
                CallStyle = IF call.marker # "None" /\ ~CallForced
                              THEN call.marker
                              ELSE "Default")
  /\ []((meta.col_specs # <<>> /\ pc # "start") =>
          /\ ctx.num_cols = Len(meta.col_specs)
          /\ table.col_widths =
               [i \in 1..Len(meta.col_specs) |-> meta.col_specs[i].width])
  /\ [][/\ (pc = "content" /\ pc' \notin {"content", "error"}) =>
            pc' = IF meta.col_specs = <<>> THEN "implicit" ELSE "rows"
        /\ (pc # "content" /\ pc' = "implicit") => pc = "implicit"
        /\ (pc = "implicit" /\ pc' = "rows" /\ cells # <<>>) =>
            /\ ctx'.num_cols = Len(cells)
            /\ Len(table'.col_widths) = Len(cells)]_vars

C22_Witness ==
  /\ Returned
  /\ meta.col_specs = <<>>
  /\ Len(table.col_widths) = 2
  /\ ctx.num_cols = 2
  /\ Len(yielded) = 2

\* C23: the row grammar is chosen from the format once for the table, the
\* same for the implicit-first-row pass and for every row: the
\* delimiter-style row parsers for the Delimited and Csv formats, the
\* prefix-style row parsers for the Prefix format.
C23_RowGrammar ==
  \A g \in grammars :
    g.grammar = IF ctx.format.kind \in {"Delimited", "Csv"} THEN "dsv" ELSE "psv"

(***************************************************************************)
(* Properties of split_paragraphs.                                         *)
(***************************************************************************)
\* the paragraphs put back in one sequence, two newlines between each two
RECURSIVE Joined(_)
Joined(ps) ==
  IF ps = <<>> THEN <<>>
  ELSE IF Len(ps) = 1 THEN ps[1]
  ELSE ps[1] \o <<"Newline", "Newline">> \o Joined(Tail(ps))

\* two newline nodes are adjacent in the sequence
DoubleNewline(ns) ==
  \E i \in 1..(Len(ns) - 1) : ns[i] = "Newline" /\ ns[i + 1] = "Newline"

C26_Autowidth ==
  /\ colgroup # None =>
       /\ Len(colgroup[1]) = Len(table.col_widths)
       /\ \A i \in 1..Len(colgroup[1]) : colgroup[1][i].tag = "col"
       /\ "autowidth" \in meta.opts =>
             \A i \in 1..Len(colgroup[1]) : colgroup[1][i].width = None
  /\ meta.col_specs = <<>> =>
       \A i \in 1..Len(table.col_widths) :
          table.col_widths[i] =
            IF "autowidth" \in meta.opts THEN Auto ELSE Proportional(1)

C26_Witness ==
  /\ Returned
  /\ "autowidth" \in meta.opts
  /\ Len(meta.col_specs) = 2
  /\ Len(widths) = 2
  /\ widths[1].kind = "Percentage"
  /\ widths[1].n # widths[2].n
  /\ colgroup = Some(<<[tag |-> "col", width |-> None],
                       [tag |-> "col", width |-> None]>>)

\* the width v rounded to Precision fractional digits, in units of
\* 10^-Precision
RoundedWidth(v) ==
  LET unit == Pow10(FracDigits - Precision)
      r == v % unit
  IN (v \div unit) +
       (IF 2 * r > unit \/ (2 * r = unit /\ (v \div unit) % 2 = 1) THEN 1 ELSE 0)

\* a number of units of 10^-Precision printed without trailing zeros and
\* without a decimal point that no digit follows
WithoutTrailingZeros(q) ==
  LET whole == Decimal(q \div Pow10(Precision))
      frac == q % Pow10(Precision)
  IN IF frac = 0 THEN whole
     ELSE whole \o <<".">> \o TrimEndMatches(Padded(frac, Precision), "0")

\* C27: every percentage width enter_table writes is printed as a plain
\* integer when it has no fractional part, and otherwise rounded to 4
\* decimals with the trailing zeros stripped; the printed number never ends
\* with a bare decimal point.
C27_PrintedWidths ==
  colgroup # None =>
    \A i \in 1..Len(widths) :
       (widths[i].kind = "Percentage" /\ "autowidth" \notin meta.opts) =>
          /\ colgroup[1][i].width # None
          /\ LET printed == colgroup[1][i].width[1]
                 v == widths[i].n
             IN /\ printed # <<>>
                /\ printed[Len(printed)] # "."
                /\ printed = IF Fract(v) = 0
                               THEN Decimal(v \div Scale)
                               ELSE WithoutTrailingZeros(RoundedWidth(v))

\* C28: the header state parse_table starts the table with follows a fixed
\* precedence: ExplicitlySet with the `header` option, also when `noheader`
\* is present too; else ExplicitlyUnset with `noheader`; else FoundNone when
\* the number of contiguous lines after the opening delimiter is not 1 (0
\* included); else Unknown. With either option the number of lines makes no
\* difference.
C28_InitialHeaderState ==
  [][(pc = "start" /\ pc' = "content") =>
       /\ "header" \in meta.opts => ctx'.header_row = "ExplicitlySet"
       /\ ("header" \notin meta.opts /\ "noheader" \in meta.opts) =>
            ctx'.header_row = "ExplicitlyUnset"
       /\ (meta.opts \cap {"header", "noheader"} = {}) =>
            /\ lines.num_lines # 1 => ctx'.header_row = "FoundNone"
            /\ lines.num_lines = 1 => ctx'.header_row = "Unknown"]_vars

C28_Witness ==
  /\ pc = "content"
  /\ {"header", "noheader"} \subseteq meta.opts
  /\ lines.num_lines = 0
  /\ ctx.header_row = "ExplicitlySet"

\* the source cells of the AsciiDoc- and Literal-content cells of a row, in
\* the order of the row
BufferedIds(row) ==
  LET marked == SelectSeq(row, LAMBDA cell : cell.content.tag \in {"AsciiDoc", "Literal"})
  IN [i \in 1..Len(marked) |-> marked[i].id]

\* C29: whenever reparse_header_cells runs on the promoted first row, the
\* header-reparse buffer holds exactly one entry for each AsciiDoc- or
\* Literal-content cell of the row, in the order of the row, so that each
\* such cell is resolved again from its own span and the buffer is never
\* empty when an entry is taken.
C29_BufferMatchesRow ==
  [][reparses' # reparses =>
       /\ [i \in 1..Len(ctx.header_reparse_cells) |->
             ctx.header_reparse_cells[i].src] = BufferedIds(cells)
       /\ pc' # "panic"]_vars

\* C30: parse_non_asciidoc_cell leaves the active substitutions as they
\* were before the call, when it succeeds and also when the inline parse
\* returns an error.
C30_SubsRestored ==
  [][inlined' # inlined => ctx_subs' = ctx_subs]_vars

====
